---- MODULE Spec2Model ----
(***************************************************************************)
(* A state-machine model of the ProfileTab component                       *)
(* (src/src/app/tabs/ProfileTab.tsx): its four pieces of local state, the  *)
(* handlers handleProfileUpdate and handleGoogleLogin, the events the      *)
(* rendered markup wires to them, and the pure function getInitials.       *)
(*                                                                         *)
(* Encoding of JavaScript values                                           *)
(*   - a profile string is a tuple of one-character strings, because       *)
(*     getInitials splits and indexes it (the default values of the fields *)
(*     other than name, which nothing indexes, are written as one piece);  *)
(*   - an error message is a TLA+ string;                                  *)
(*   - a value that may be null/undefined/absent is a set with at most one *)
(*     element: Null is {}, Some(x) is {x}.                                *)
(*                                                                         *)
(* A handler that runs to completion without awaiting is one step; React   *)
(* commits the state it set and renders again before the next event, so    *)
(* every step ends with the new render (view).  handleGoogleLogin awaits   *)
(* twice, so it is three steps: the call, the settling of fetch, and the   *)
(* settling of response.json().                                            *)
(***************************************************************************)
EXTENDS Integers, Sequences, FiniteSets, TLC

VARIABLES
    props,          \* the props of this mount: userData, whether onUpdateProfile is supplied
    isEditing,      \* useState<boolean>(false)
    localUserData,  \* useState<UserData>(userData)
    formError,      \* useState<string | null>(null)
    isAuthLoading,  \* useState<boolean>(false)
    view,           \* what the last render put on screen
    requests,       \* the calls of handleGoogleLogin so far, in call order
    profileCalls,   \* the arguments onUpdateProfile was called with, in order
    nEdits,         \* how many times handleProfileUpdate ran
    lastWritten,    \* history: per field, the value most recently written to it
    lastEvent       \* history: the step just taken and its inputs

vars == <<props, isEditing, localUserData, formError, isAuthLoading, view,
          requests, profileCalls, nEdits, lastWritten, lastEvent>>

----------------------------------------------------------------------------
(* Bounds of the model.                                                    *)

MaxCalls == 3       \* calls of handleProfileUpdate and handleGoogleLogin in one behaviour
MaxNameLen == 3     \* length of the names getInitials is applied to

----------------------------------------------------------------------------
(* JavaScript values.                                                      *)

Null == {}
Some(x) == {x}
TheValue(o) == CHOOSE x \in o : TRUE

\* Truthiness of a nullable string message: null, undefined and "" are falsy.
Truthy(o) == o # Null /\ o # Some("")

\* a || b on nullable string messages.
OrElse(o, fallback) == IF Truthy(o) THEN TheValue(o) ELSE fallback

\* Truthiness of a nullable profile string (the empty string is <<>>).
TruthyStr(o) == o # Null /\ o # Some(<<>>)

Fields == {"name", "email", "phone", "joinDate", "experienceLevel",
           "favoriteMethod", "avatar"}

\* interface UserData: six strings and an optional, nullable avatar.
DefaultUserData ==
    [name            |-> <<"J","u","a","n"," ","D","e","l","a"," ","C","r","u","z">>,
     email           |-> <<"juan.delacruz@shroomify.com">>,
     phone           |-> <<"+63 912 345 6789">>,
     joinDate        |-> <<"January 2024">>,
     experienceLevel |-> <<"Intermediate">>,
     favoriteMethod  |-> <<"Straw Substrate">>,
     avatar          |-> Null]

FallbackMessage == "Google login failed. Please try again."

----------------------------------------------------------------------------
(* getInitials: name.split(' ').map(n => n[0]).join('').toUpperCase()      *)

\* The characters names are built from: letters, the space, a tab (white
\* space that is not a space) and a letter whose upper case is two letters.
Alphabet == {"a", "B", " ", "\t", "ß"}

\* String.prototype.toUpperCase on one character; the result is a string.
UpperChar(c) ==
    CASE c = "a" -> <<"A">>
      [] c = "b" -> <<"B">>
      [] c = "c" -> <<"C">>
      [] c = "e" -> <<"E">>
      [] c = "l" -> <<"L">>
      [] c = "r" -> <<"R">>
      [] c = "u" -> <<"U">>
      [] c = "n" -> <<"N">>
      [] c = "z" -> <<"Z">>
      [] c = "g" -> <<"G">>
      [] c = "ß" -> <<"S", "S">>
      [] OTHER   -> <<c>>

\* toUpperCase on a string: character by character, from position i on.
RECURSIVE UpperFrom(_, _)
UpperFrom(s, i) ==
    IF i > Len(s) THEN <<>> ELSE UpperChar(s[i]) \o UpperFrom(s, i + 1)

ToUpperCase(s) == UpperFrom(s, 1)

\* s.split(sep) for a one-character separator: the pieces between the
\* separators, empty pieces included; "" splits into [""].
Split(s, sep) ==
    LET cuts == {0, Len(s) + 1} \cup {i \in 1..Len(s) : s[i] = sep}
        cut(k) == CHOOSE p \in cuts : Cardinality({q \in cuts : q < p}) = k - 1
    IN [k \in 1..(Cardinality(cuts) - 1) |-> SubSeq(s, cut(k) + 1, cut(k + 1) - 1)]

\* n[0]: the first character, or undefined for the empty string.
FirstChar(n) == IF n = <<>> THEN Null ELSE Some(n[1])

\* pieces.map(n => n[0]).join(''), from piece k on: join writes undefined
\* as "".
RECURSIVE JoinFirstsFrom(_, _)
JoinFirstsFrom(pieces, k) ==
    IF k > Len(pieces) THEN <<>>
    ELSE (IF FirstChar(pieces[k]) = Null THEN <<>>
          ELSE <<TheValue(FirstChar(pieces[k]))>>)
         \o JoinFirstsFrom(pieces, k + 1)

JoinFirsts(pieces) == JoinFirstsFrom(pieces, 1)

\* getInitials without the final toUpperCase().
getInitialsNoUpperCase(name) ==
    CHOOSE joined \in {JoinFirsts(pieces) : pieces \in {Split(name, " ")}} : TRUE

\* The method chain: each call is applied to the value of the one before it
\* (the bound variables hold values, so each stage is computed once).
getInitials(name) ==
    CHOOSE initials \in
        {ToUpperCase(joined) :
            joined \in {JoinFirsts(pieces) : pieces \in {Split(name, " ")}}} : TRUE

----------------------------------------------------------------------------
(* The render.                                                             *)

\* The parts of the returned markup that the events below depend on: the
\* avatar image or the initials placeholder, the name as input or heading,
\* the error line, and the sign-in button's disabled attribute.
Render(data, editing, error, loading) ==
    [avatar         |-> IF TruthyStr(data.avatar)
                        THEN [img |-> TheValue(data.avatar)]
                        ELSE [initials |-> getInitials(data.name)],
     nameInput      |-> editing,
     errorLine      |-> IF Truthy(error) THEN error ELSE Null,
     signInDisabled |-> loading]

Rendered ==
    view' = Render(localUserData', isEditing', formError', isAuthLoading')

Pending == {i \in 1..Len(requests) : requests[i].pc # "done"}

----------------------------------------------------------------------------
(* Inputs.                                                                 *)

\* Values typed into a field.
EditValues == {<<"a", " ", "B">>}

\* What prompt('Enter Google ID token') returns: null, "" or a token.
PromptAnswers == {Null, Some(""), Some("tok")}
IdTokens == {"tok"}

\* The user object of a success body.
GoogleUser == [full_name |-> <<"B", "a">>, email |-> <<"g">>]

\* Parsed response bodies: an optional error string and an optional user.
Results ==
    {[error |-> e, user |-> Null] : e \in {Null, Some(""), Some("Invalid token")}}
    \cup {[error |-> Null, user |-> Some(GoogleUser)]}

\* What fetch rejects with, and what response.json() rejects with.
FetchErrors == {[message |-> Some("Failed to fetch")], [message |-> Some("")]}
JsonErrors  == {[message |-> Some("Unexpected token < in JSON at position 0")]}

\* Reading a property of undefined (user.full_name when result.user is absent).
TypeError == [message |-> Some("Cannot read properties of undefined (reading 'full_name')")]

----------------------------------------------------------------------------
(* Construction.                                                           *)

InitWith(userDatas) ==
    /\ props \in [userData : userDatas, onUpdateProfile : BOOLEAN]
    /\ isEditing = FALSE
    /\ localUserData = props.userData
    /\ formError = Null
    /\ isAuthLoading = FALSE
    /\ view = Render(localUserData, isEditing, formError, isAuthLoading)
    /\ requests = <<>>
    /\ profileCalls = <<>>
    /\ nEdits = 0
    /\ lastWritten = props.userData
    /\ lastEvent = [op |-> "mount"]

Init == InitWith({DefaultUserData})

\* The names getInitials is applied to: every string up to MaxNameLen.
Names == UNION {[1..n -> Alphabet] : n \in 0..MaxNameLen}

InitNames == InitWith({[DefaultUserData EXCEPT !.name = n] : n \in Names})

----------------------------------------------------------------------------
(* handleProfileUpdate and the edit affordances.                           *)

\* The avatar field is string | null, so a string stored there is Some(value).
Stored(field, value) == IF field = "avatar" THEN Some(value) ELSE value

\* The spread taken from the userData prop instead of the local copy.
UpdatedDataFromProps(data, field, value) ==
    [props.userData EXCEPT ![field] = Stored(field, value)]

\* { ...localUserData, [field]: value }
UpdatedData(data, field, value) == [data EXCEPT ![field] = Stored(field, value)]

\* The callback given the record before the edit.
NotifyParentWithOldData(calls, supplied, updatedData) ==
    IF supplied THEN Append(calls, localUserData) ELSE calls

\* if (onUpdateProfile) onUpdateProfile(updatedData)
NotifyParent(calls, supplied, updatedData) ==
    IF supplied THEN Append(calls, updatedData) ELSE calls

HandleProfileUpdate(field, value) ==
    LET updatedData == UpdatedData(localUserData, field, value) IN
    /\ nEdits + Len(requests) < MaxCalls
    /\ localUserData' = updatedData
    /\ profileCalls' = NotifyParent(profileCalls, props.onUpdateProfile, updatedData)
    /\ nEdits' = nEdits + 1
    /\ lastWritten' = [lastWritten EXCEPT ![field] = Stored(field, value)]
    /\ lastEvent' = [op |-> "handleProfileUpdate", field |-> field,
                     value |-> value]
    /\ UNCHANGED <<props, isEditing, formError, isAuthLoading, requests>>
    /\ Rendered

\* onClick={() => setIsEditing(!isEditing)}
EditButtonClick ==
    /\ isEditing' = ~isEditing
    /\ lastEvent' = [op |-> "editButtonClick"]
    /\ UNCHANGED <<props, localUserData, formError, isAuthLoading, requests,
                   profileCalls, nEdits, lastWritten>>
    /\ Rendered

\* onChange of the name input, which exists only while editing.
NameInputChange(value) ==
    /\ view.nameInput
    /\ HandleProfileUpdate("name", value)

\* onBlur={() => setIsEditing(false)}
NameInputBlur ==
    /\ view.nameInput
    /\ isEditing' = FALSE
    /\ lastEvent' = [op |-> "nameInputBlur"]
    /\ UNCHANGED <<props, localUserData, formError, isAuthLoading, requests,
                   profileCalls, nEdits, lastWritten>>
    /\ Rendered

----------------------------------------------------------------------------
(* handleGoogleLogin.                                                      *)

\* handleGoogleLogin returning at once while a call is in flight.
HandleGoogleLoginIfIdle(idToken) ==
    /\ nEdits + Len(requests) < MaxCalls
    /\ lastEvent' = [op |-> "handleGoogleLogin", idToken |-> idToken]
    /\ IF isAuthLoading
       THEN UNCHANGED <<props, isEditing, localUserData, formError,
                        isAuthLoading, view, requests, profileCalls, nEdits,
                        lastWritten>>
       ELSE /\ isAuthLoading' = TRUE
            /\ formError' = Null
            /\ requests' = Append(requests,
                                  [pc       |-> "fetch",
                                   body     |-> [id_token |-> idToken],
                                   closure  |-> localUserData,
                                   response |-> Null])
            /\ UNCHANGED <<props, isEditing, localUserData, profileCalls,
                           nEdits, lastWritten>>
            /\ Rendered

\* The synchronous part, up to the first await: setIsAuthLoading(true),
\* setFormError(null), and the request is sent.  The continuation keeps the
\* localUserData of the render whose handler was called (closure).
HandleGoogleLogin(idToken) ==
    /\ nEdits + Len(requests) < MaxCalls
    /\ isAuthLoading' = TRUE
    /\ formError' = Null
    /\ requests' = Append(requests,
                          [pc       |-> "fetch",
                           body     |-> [id_token |-> idToken],
                           closure  |-> localUserData,
                           response |-> Null])
    /\ lastEvent' = [op |-> "handleGoogleLogin", idToken |-> idToken]
    /\ UNCHANGED <<props, isEditing, localUserData, profileCalls, nEdits,
                   lastWritten>>
    /\ Rendered

\* The sign-in button: disabled={isAuthLoading}; its handler asks for a
\* token and calls handleGoogleLogin if the answer is truthy.
SignInClick(answer) ==
    /\ ~view.signInDisabled
    /\ IF Truthy(answer)
       THEN HandleGoogleLogin(TheValue(answer))
       ELSE UNCHANGED vars

\* The error thrown for a not-ok response, the body's error field ignored.
NotOkErrorIgnoresBody(result) == [message |-> Some(FallbackMessage)]

\* throw new Error(result?.error || 'Google login failed. Please try again.')
NotOkError(result) == [message |-> Some(OrElse(result.error, FallbackMessage))]

\* The object given to setLocalUserData, the avatar left out.
LoggedInDataNoAvatar(closure, user) ==
    [name            |-> user.full_name,
     email           |-> user.email,
     phone           |-> closure.phone,
     joinDate        |-> closure.joinDate,
     experienceLevel |-> closure.experienceLevel,
     favoriteMethod  |-> closure.favoriteMethod,
     avatar          |-> Null]

\* The object given to setLocalUserData on success.
LoggedInData(closure, user) ==
    [name            |-> user.full_name,
     email           |-> user.email,
     phone           |-> closure.phone,
     joinDate        |-> closure.joinDate,
     experienceLevel |-> closure.experienceLevel,
     favoriteMethod  |-> closure.favoriteMethod,
     avatar          |-> closure.avatar]

\* The try block after both awaits: what it throws (Null: nothing) and the
\* data it stores if it does not throw.
TryBlock(closure, response, result) ==
    IF ~response.ok THEN [thrown |-> Some(NotOkError(result)), data |-> Null]
    ELSE IF result.user = Null THEN [thrown |-> Some(TypeError), data |-> Null]
    ELSE [thrown |-> Null,
          data   |-> Some(LoggedInData(closure, TheValue(result.user)))]

\* The catch clause showing the fixed message whatever was thrown.
CaughtMessageAlwaysFallback(error) == Some(FallbackMessage)

\* catch (error) { setFormError(error?.message || '...') }
CaughtMessage(error) == Some(OrElse(error.message, FallbackMessage))

\* What leaves handleGoogleLogin as a rejection: the catch clause takes
\* every exception and neither it nor the finally clause throws.
Escaped(thrown) == Null

\* setIsAuthLoading(false) as the last statement of the try block.
FinallyLoadingOnlyInTry(thrown) == thrown # Null

\* finally { setIsAuthLoading(false) }
FinallyLoading(thrown) == FALSE

\* The catch clause putting the userData prop back.
DataAfterResetOnFailure(thrown, data) ==
    IF thrown = Null THEN TheValue(data) ELSE props.userData

\* setLocalUserData runs only if nothing was thrown before it.
DataAfter(thrown, data) ==
    IF thrown = Null THEN TheValue(data) ELSE localUserData

\* A call that has returned: nothing of it is kept.
Done == [pc |-> "done", body |-> Null, closure |-> Null, response |-> Null]

\* The end of call i: the catch clause if something was thrown, the store
\* of the new data if not, and the finally clause.
Complete(i, op, thrown, data, input) ==
    /\ requests' = [requests EXCEPT ![i] = Done]
    /\ localUserData' = DataAfter(thrown, data)
    /\ formError' = IF thrown = Null THEN formError
                    ELSE CaughtMessage(TheValue(thrown))
    /\ isAuthLoading' = FinallyLoading(thrown)
    /\ lastWritten' = IF thrown = Null
                      THEN [lastWritten EXCEPT !.name = TheValue(data).name,
                                               !.email = TheValue(data).email]
                      ELSE lastWritten
    /\ lastEvent' = [op |-> op, slot |-> i, thrown |-> thrown,
                     escaped |-> Escaped(thrown), input |-> input,
                     atCall |-> requests[i].closure]
    /\ UNCHANGED <<props, isEditing, profileCalls, nEdits>>
    /\ Rendered

\* await fetch(...) resolves with a response, ok or not; response.json() starts.
FetchResolves(i, ok) ==
    /\ i \in 1..Len(requests)
    /\ requests[i].pc = "fetch"
    /\ requests' = [requests EXCEPT ![i].pc = "json",
                                    ![i].response = Some([ok |-> ok])]
    /\ lastEvent' = [op |-> "fetchResolves", slot |-> i]
    /\ UNCHANGED <<props, isEditing, localUserData, formError, isAuthLoading,
                   view, profileCalls, nEdits, lastWritten>>

\* await fetch(...) rejects (network failure).
FetchRejects(i, error) ==
    /\ i \in 1..Len(requests)
    /\ requests[i].pc = "fetch"
    /\ Complete(i, "fetchRejects", Some(error), Null, error)

\* await response.json() rejects (the body is not JSON).
JsonRejects(i, error) ==
    /\ i \in 1..Len(requests)
    /\ requests[i].pc = "json"
    /\ Complete(i, "jsonRejects", Some(error), Null,
                [ok |-> TheValue(requests[i].response).ok, error |-> error])

\* await response.json() resolves with the parsed body.
JsonResolves(i, result) ==
    /\ i \in 1..Len(requests)
    /\ requests[i].pc = "json"
    /\ LET out == TryBlock(requests[i].closure, TheValue(requests[i].response),
                           result)
       IN Complete(i, "jsonResolves", out.thrown, out.data,
                   [ok |-> TheValue(requests[i].response).ok, result |-> result])

----------------------------------------------------------------------------
(* Specifications.                                                         *)

Slots == 1..MaxCalls

ProfileUpdateCall == \E f \in Fields, v \in EditValues : HandleProfileUpdate(f, v)
NameTyped == \E v \in EditValues : NameInputChange(v)
GoogleLoginCall == \E t \in IdTokens : HandleGoogleLogin(t)
SignInClicked == \E a \in PromptAnswers : SignInClick(a)
FetchResolved == \E i \in Slots, ok \in BOOLEAN : FetchResolves(i, ok)
FetchRejected == \E i \in Slots, e \in FetchErrors : FetchRejects(i, e)
JsonRejected == \E i \in Slots, e \in JsonErrors : JsonRejects(i, e)
JsonResolved == \E i \in Slots, r \in Results : JsonResolves(i, r)

\* The network and the event loop: every await settles one way or another.
Settles(i) ==
    \/ \E ok \in BOOLEAN : FetchResolves(i, ok)
    \/ \E e \in FetchErrors : FetchRejects(i, e)
    \/ \E e \in JsonErrors : JsonRejects(i, e)
    \/ \E r \in Results : JsonResolves(i, r)

\* The events of the rendered markup.
NextUI ==
    \/ EditButtonClick
    \/ NameTyped
    \/ NameInputBlur
    \/ SignInClicked
    \/ FetchResolved
    \/ FetchRejected
    \/ JsonRejected
    \/ JsonResolved

\* The handlers called with any argument their signatures admit, at any time,
\* beside the events of the markup.
Next ==
    \/ NextUI
    \/ ProfileUpdateCall
    \/ GoogleLoginCall

Spec == Init /\ [][Next]_vars

\* Only what the markup wires: the name input and the sign-in button.
SpecUI == Init /\ [][NextUI]_vars

\* The calls of handleGoogleLogin alone, with the network fair: an await
\* that can settle does settle (the browser resolves or rejects the promise
\* and the event loop runs the continuation).
NextLogin ==
    \/ GoogleLoginCall
    \/ FetchResolved
    \/ FetchRejected
    \/ JsonRejected
    \/ JsonResolved

Settled == \E i \in Slots : Settles(i)

LiveSpec == Init /\ [][NextLogin]_vars /\ WF_vars(Settled)

\* The profile card mounted with any name and edited through the name input.
NextInitials ==
    \/ EditButtonClick
    \/ NameTyped
    \/ NameInputBlur

SpecInitials == InitNames /\ [][NextInitials]_vars

----------------------------------------------------------------------------
(* Properties.                                                             *)

\* The steps on which a call of handleGoogleLogin returns.
CompletionOps == {"fetchRejects", "jsonRejects", "jsonResolves"}

Completed == lastEvent.op \in CompletionOps
Failed == Completed /\ lastEvent.thrown # Null

\* C1: every call of handleGoogleLogin eventually returns, and on the step
\* it returns, whichever way, isAuthLoading is false.
C1_EveryAttemptEndsNotLoading ==
    \A i \in Slots :
        (i \in Pending) ~> (Completed /\ lastEvent.slot = i /\ ~isAuthLoading)

C1_Witness ==
    /\ Failed
    /\ lastEvent.op = "jsonRejects"
    /\ ~isAuthLoading
    /\ Pending = {}

\* C2: after an ok response whose body carries user.full_name and
\* user.email, name and email are the response's, and phone, joinDate,
\* experienceLevel, favoriteMethod and avatar are those of the local state
\* handleGoogleLogin was called in.
C2_SuccessOverwritesNameAndEmail ==
    (/\ lastEvent.op = "jsonResolves"
     /\ lastEvent.input.ok
     /\ lastEvent.input.result.user # Null)
    => /\ lastEvent.thrown = Null
       /\ localUserData.name = TheValue(lastEvent.input.result.user).full_name
       /\ localUserData.email = TheValue(lastEvent.input.result.user).email
       /\ \A f \in Fields \ {"name", "email"} :
              localUserData[f] = lastEvent.atCall[f]

C2_Witness ==
    /\ lastEvent.op = "jsonResolves"
    /\ lastEvent.thrown = Null
    /\ localUserData.name = GoogleUser.full_name
    /\ localUserData.phone # DefaultUserData.phone
    /\ localUserData.phone = lastEvent.atCall.phone

\* C3 as stated: after a not-ok response, formError is the body's error
\* field if the field is present, and the fallback if it is absent.
C3_ErrorFieldIfPresent ==
    (lastEvent.op = "jsonResolves" /\ ~lastEvent.input.ok)
    => formError = IF lastEvent.input.result.error # Null
                   THEN lastEvent.input.result.error
                   ELSE Some(FallbackMessage)

\* C3 amended: after a not-ok response whose body parses, formError is the
\* body's error field if it is a non-empty string, and the fallback if the
\* field is absent or empty.
C3_ErrorFieldIfNonEmpty ==
    (lastEvent.op = "jsonResolves" /\ ~lastEvent.input.ok)
    => formError = IF lastEvent.input.result.error \notin {Null, Some("")}
                   THEN lastEvent.input.result.error
                   ELSE Some(FallbackMessage)

C3_Witness ==
    /\ lastEvent.op = "jsonResolves"
    /\ ~lastEvent.input.ok
    /\ lastEvent.input.result.error = Some("Invalid token")
    /\ formError = Some("Invalid token")

\* C4 as stated: after a network or parse exception formError is the
\* fallback message and nothing escapes handleGoogleLogin.
C4_ExceptionShowsFallback ==
    lastEvent.op \in {"fetchRejects", "jsonRejects"}
    => /\ formError = Some(FallbackMessage)
       /\ lastEvent.escaped = Null

\* C4 amended: after a network or parse exception formError is the
\* exception's message if it has a non-empty one, and the fallback message
\* otherwise; nothing escapes handleGoogleLogin.
C4_ExceptionShowsItsMessage ==
    lastEvent.op \in {"fetchRejects", "jsonRejects"}
    => /\ formError = IF TheValue(lastEvent.thrown).message \notin {Null, Some("")}
                      THEN TheValue(lastEvent.thrown).message
                      ELSE Some(FallbackMessage)
       /\ lastEvent.escaped = Null

C4_Witness ==
    /\ lastEvent.op = "fetchRejects"
    /\ TheValue(lastEvent.thrown).message = Some("Failed to fetch")
    /\ formError = Some("Failed to fetch")
    /\ ~isAuthLoading

\* C5: handleProfileUpdate(f, v) leaves f equal to v and every other field
\* as it was immediately before.
C5_EditIsShallowMerge ==
    [][lastEvent'.op = "handleProfileUpdate"
       => /\ localUserData'[lastEvent'.field]
               = Stored(lastEvent'.field, lastEvent'.value)
          /\ \A g \in Fields \ {lastEvent'.field} :
                 localUserData'[g] = localUserData[g]]_vars

C5_Witness ==
    /\ lastEvent.op = "handleProfileUpdate"
    /\ lastEvent.field = "phone"
    /\ localUserData.phone = lastEvent.value
    /\ localUserData.joinDate # DefaultUserData.joinDate

\* C6: every call of handleProfileUpdate calls onUpdateProfile exactly
\* once, with the record it stores, when the callback is supplied, and calls
\* nothing when it is not; no other step calls it.
C6_EveryEditNotifiesOnce ==
    [][IF lastEvent'.op = "handleProfileUpdate"
       THEN /\ localUserData'[lastEvent'.field]
                 = Stored(lastEvent'.field, lastEvent'.value)
            /\ profileCalls' = IF props.onUpdateProfile
                               THEN Append(profileCalls, localUserData')
                               ELSE <<>>
       ELSE profileCalls' = profileCalls]_vars

C6_Witness ==
    /\ lastEvent.op = "handleProfileUpdate"
    /\ lastEvent.field = "name"
    /\ view.nameInput
    /\ Len(profileCalls) = 2
    /\ profileCalls[2] = localUserData

RECURSIVE InitialsFrom(_, _, _)
InitialsFrom(s, i, seps) ==
    IF i > Len(s) THEN <<>>
    ELSE (IF s[i] \notin seps /\ (i = 1 \/ s[i - 1] \in seps)
          THEN UpperChar(s[i]) ELSE <<>>)
         \o InitialsFrom(s, i + 1, seps)

Whitespace == {" ", "\t"}

ShownInitials == view.avatar.initials

\* C8 as stated: the initials are the upper-cased first character of each
\* whitespace-separated token of the name, in order; a single-word name
\* gives exactly one character and the empty name gives the empty string.
C8_InitialsOfWhitespaceTokens ==
    LET name == localUserData.name IN
    /\ ShownInitials = InitialsFrom(name, 1, Whitespace)
    /\ (name # <<>> /\ \A i \in 1..Len(name) : name[i] \notin Whitespace)
       => Len(ShownInitials) = 1
    /\ name = <<>> => ShownInitials = <<>>

\* C8 amended: the initials are the upper-cased first character of each
\* non-empty piece of the name between space characters (the space alone
\* separates), in order; a single-word name gives the upper-casing of its
\* first character and the empty name gives the empty string.
C8_InitialsOfSpaceTokens ==
    LET name == localUserData.name IN
    /\ ShownInitials = InitialsFrom(name, 1, {" "})
    /\ (name # <<>> /\ \A i \in 1..Len(name) : name[i] # " ")
       => ShownInitials = UpperChar(name[1])
    /\ name = <<>> => ShownInitials = <<>>

C8_Witness ==
    /\ localUserData.name = <<"a", "\t", "B">>
    /\ view.nameInput
    /\ ShownInitials = <<"A">>

C10_FailureChangesOnlyErrorAndLoading ==
    [][(\/ lastEvent'.op \in {"handleGoogleLogin", "fetchResolves"}
        \/ lastEvent'.op \in CompletionOps /\ lastEvent'.thrown # Null)
       => /\ localUserData' = localUserData
          /\ isEditing' = isEditing
          /\ profileCalls' = profileCalls]_vars

C10_Witness ==
    /\ Failed
    /\ localUserData # props.userData
    /\ isEditing
    /\ formError # Null

====
